---- MODULE Spec2Model ----
(***************************************************************************)
(* Streaming decode loop of web/pages/selling_page.py:                     *)
(* generate_interactive (a generator) as driven by get_response.           *)
(*                                                                         *)
(* A run is one call of generate_interactive.  The generator is modelled   *)
(* at its suspension points: Resolve is the prologue (lines 63-129), Step  *)
(* is one loop iteration up to the yield (lines 131-166), Resume is the    *)
(* stop test executed when the caller pulls again (lines 169-170).         *)
(* Python None is modelled by the integer None == -1.  A text handed to    *)
(* the caller is represented by the token list passed to tokenizer.decode. *)
(***************************************************************************)
EXTENDS Integers, Sequences, FiniteSets, TLC

\* ---------------------------------------------------------------- bounds
MaxPromptLen == 2
MaxLength == 4
MaxNewTokens == 3
MaxMainRuns == 3
MaxHistory == 3

\* ------------------------------------------------------------- vocabulary
None == -1
\* two ordinary tokens, the configured end-of-sequence id and the
\* role-specific one passed as additional_eos_token_id
TokA == 0
TokB == 1
EosCfg == 2
EosAdd == 3
Vocab == {TokA, TokB, EosCfg, EosAdd}

VARIABLES
    model_generation_config, \* model.generation_config, shared by all runs
    model_weights,           \* the model: which score function it computes
    kwargs,                  \* **kwargs of the call (None = key absent)
    additional_eos_token_id, \* argument
    stopping_criteria_arg,   \* argument: caller-supplied criteria
    prompt_ids,              \* tokenizer([prompt])["input_ids"][0]
    pc,                      \* "created","running","yielded","stopped","failed"
    generation_config,       \* the run's deep copy after update(**kwargs)
    eos_token_id,            \* the run's list of end-of-sequence ids
    input_length,            \* len(inputs["input_ids"][0])
    input_ids,               \* the growing token sequence
    unfinished_sequences,    \* 1 or 0 (batch size 1)
    stopping_criteria,       \* list built by model._get_stopping_criteria
    emitted,                 \* token lists decoded and yielded so far
    diagnostics,             \* non-fatal warnings surfaced
    error,                   \* exception that ended the run, or "none"
    step,                    \* loop iterations begun
    cuda_cache,              \* "empty","held","released"
    gr_pc,                   \* get_response: "streaming","done","aborted"
    runs,                    \* concurrent runs on the same model: id -> run
    messages_in_state,       \* "messages" in st.session_state
    messages,                \* st.session_state.messages
    button_msg,              \* st.session_state.button_msg (NoKey = absent)
    page_switched,           \* page_switch != current_page
    main_pc,                 \* script run: "rerun","intro","reply","idle",
                             \* "left"; "call" for a bare get_response call
    event,                   \* what triggered the script run
    chat_value,              \* value of st.chat_input in this script run
    turn_prompt,             \* prompt argument of the current get_response
    first_input,             \* first_input argument of that call
    real_prompt,             \* result of combine_history, as segments
    cart_clicks,             \* add-to-cart clicks so far
    cart_turns,              \* turns whose prompt came from button_msg
    main_runs,               \* script runs started
    aborted_before           \* some script run ended by an exception before
                             \* it chose its prompt at line 338

vars == <<model_generation_config, model_weights, kwargs, additional_eos_token_id,
          stopping_criteria_arg, prompt_ids, pc, generation_config,
          eos_token_id, input_length, input_ids, unfinished_sequences,
          stopping_criteria, emitted, diagnostics, error, step,
          cuda_cache, gr_pc, runs, messages_in_state, messages, button_msg,
          page_switched, main_pc, event, chat_value, turn_prompt,
          first_input, real_prompt, cart_clicks, cart_turns, main_runs,
          aborted_before>>

\* ---------------------------------------------------------------- helpers
Front(s) == SubSeq(s, 1, Len(s) - 1)

Last(s) == s[Len(s)]

\* The prompt is a chat template: every second token is the role delimiter
\* <|im_end|>, which is also the additional end-of-sequence id.
Prompt(n) == [i \in 1..n |-> IF i % 2 = 0 THEN EosAdd ELSE TokA]

\* generation_config.update(**kwargs): keys present in kwargs overwrite.
Update(cfg, kw) ==
    [cfg EXCEPT !.max_length = IF kw.max_length # None THEN kw.max_length ELSE @,
                !.max_new_tokens = IF kw.max_new_tokens # None THEN kw.max_new_tokens ELSE @]

\* lines 77-80: an int becomes a one-element list, then the additional id
\* is appended.
EosList(cfg, additional) ==
    IF additional # None THEN Append(cfg.eos_ids, additional) ELSE cfg.eos_ids

\* variant of HasDefaultMaxLength that does not look at the call's kwargs
HasDefaultMaxLengthIgnoresKwargs(kw, cfg) == cfg.max_length # None

\* line 81
HasDefaultMaxLength(kw, cfg) == kw.max_length = None /\ cfg.max_length # None

\* variant of ResolveMaxLength in which an explicit max_length wins over
\* max_new_tokens
ResolveMaxLengthExplicitWins(kw, cfg, seq_len) ==
    IF kw.max_length # None THEN kw.max_length
    ELSE IF cfg.max_new_tokens # None THEN cfg.max_new_tokens + seq_len
    ELSE cfg.max_length

\* variant of ResolveMaxLength that forgets to add the prompt length
ResolveMaxLengthNoPrompt(kw, cfg, seq_len) ==
    IF cfg.max_new_tokens # None THEN cfg.max_new_tokens ELSE cfg.max_length

\* lines 82-93: the max_length the run works with
ResolveMaxLength(kw, cfg, seq_len) ==
    IF HasDefaultMaxLength(kw, cfg) /\ cfg.max_new_tokens = None
    THEN cfg.max_length
    ELSE IF cfg.max_new_tokens # None
         THEN cfg.max_new_tokens + seq_len
         ELSE cfg.max_length

\* lines 82-112: the non-fatal diagnostics of the prologue
ResolveDiagnostics(kw, cfg, seq_len) ==
    (IF HasDefaultMaxLength(kw, cfg) /\ cfg.max_new_tokens = None
     THEN {"max_length_default_deprecated"} ELSE {})
    \cup
    (IF ~(HasDefaultMaxLength(kw, cfg) /\ cfg.max_new_tokens = None)
        /\ cfg.max_new_tokens # None /\ ~HasDefaultMaxLength(kw, cfg)
     THEN {"both_set_max_new_tokens_precedence"} ELSE {})
    \cup
    (IF ResolveMaxLength(kw, cfg, seq_len) # None
        /\ seq_len >= ResolveMaxLength(kw, cfg, seq_len)
     THEN {"input_length_exceeds_max_length"} ELSE {})

\* variant of LengthCheckRaises that guards the comparison against None
LengthCheckSkipsNone(seq_len, max_length) == FALSE

\* line 105: `input_ids_seq_length >= generation_config.max_length` raises
\* TypeError when max_length is still None
LengthCheckRaises(seq_len, max_length) == max_length = None

\* line 126: the default MaxLengthCriteria followed by the caller's criteria
GetStoppingCriteria(max_length, custom) ==
    <<[kind |-> "MaxLength", arg |-> max_length]>> \o custom

CriterionHolds(c, ids) ==
    IF c.kind = "MaxLength" THEN Len(ids) >= c.arg
    ELSE Last(ids) = c.arg

\* line 169: StoppingCriteriaList.__call__ is any() over its members
StoppingCriteriaHolds(criteria, ids) ==
    \E i \in 1..Len(criteria) : CriterionHolds(criteria[i], ids)

\* variant of NotAnyEos that tests the first configured id only
NotFirstEos(tok, eos) == tok # eos[1]

\* line 157: min(next_tokens != i for i in eos_token_id)
NotAnyEos(tok, eos) == \A i \in 1..Len(eos) : tok # eos[i]

\* variant of OutputSlice that keeps the newest token only (a delta)
OutputSliceDelta(ids, n) == SubSeq(ids, Len(ids), Len(ids))

\* line 160
OutputSlice(ids, n) == SubSeq(ids, n + 1, Len(ids))

\* variant of StripEos that leaves the token list as it is
StripEosNever(out, eos, i) == [ok |-> TRUE, ids |-> out]

\* lines 161-163: one pass over the id list; indexing [-1] of an empty
\* list raises IndexError (ok = FALSE).
RECURSIVE StripEos(_, _, _)
StripEos(out, eos, i) ==
    IF i > Len(eos) THEN [ok |-> TRUE, ids |-> out]
    ELSE IF Len(out) = 0 THEN [ok |-> FALSE, ids |-> out]
    ELSE IF Last(out) = eos[i] THEN StripEos(Front(out), eos, i + 1)
    ELSE StripEos(out, eos, i + 1)

\* ------------------------------------------------------ prompt assembly
\* Texts are token lists.  NoKey / NoText stand for an absent session key
\* and for the None returned by st.chat_input.
NoKey == <<>>

NoText == <<>>

MetaInstruction == <<4>>

FirstInputText == <<5>>

ChatText == <<6>>

PhraseText == <<8>>

\* line 335: the sentinel "x-x"
SentinelText == <<9>>

Roles == {"user", "robot", "other"}

UserMessage(text) == [role |-> "user", content |-> text]

RobotMessage(text) == [role |-> "robot", content |-> text]

\* lines 232-235 and 240: a formatted template is kept as the name of the
\* template and the text put into it
Segment(template, text) == [template |-> template, content |-> text]

\* lines 238-252: ok = FALSE when a message has a role other than user or
\* robot (RuntimeError)
CombineHistory(msgs, prompt) ==
    [ok |-> \A i \in 1..Len(msgs) : msgs[i].role \in {"user", "robot"},
     segs |-> <<Segment("system", MetaInstruction)>>
              \o [i \in 1..Len(msgs) |->
                    Segment(IF msgs[i].role = "user" THEN "user_prompt"
                            ELSE "robot_prompt", msgs[i].content)]
              \o <<Segment("cur_query_prompt", prompt)>>]

\* variant of GetResponseStart that stores the user message before it
\* assembles the prompt
GetResponseStartAppendsFirst(msgs, prompt, fi) ==
    LET appended == IF fi THEN msgs ELSE Append(msgs, UserMessage(prompt))
        c == CombineHistory(appended, prompt)
    IN [ok |-> c.ok,
        real_prompt |-> IF c.ok THEN c.segs ELSE <<>>,
        messages |-> IF c.ok THEN appended ELSE msgs]

\* variant of GetResponseStart that stores the user message whatever
\* first_input says
GetResponseStartAlwaysAppends(msgs, prompt, fi) ==
    LET c == CombineHistory(msgs, prompt)
    IN [ok |-> c.ok,
        real_prompt |-> IF c.ok THEN c.segs ELSE <<>>,
        messages |-> IF c.ok THEN Append(msgs, UserMessage(prompt)) ELSE msgs]

\* get_response lines 256-260: the prompt is assembled from the history as
\* it is, then the user message is stored unless first_input
GetResponseStart(msgs, prompt, fi) ==
    LET c == CombineHistory(msgs, prompt)
    IN [ok |-> c.ok,
        real_prompt |-> IF c.ok THEN c.segs ELSE <<>>,
        messages |-> IF c.ok /\ ~fi THEN Append(msgs, UserMessage(prompt))
                     ELSE msgs]

\* line 63: the tokenizer turns every segment into its text token and the
\* delimiter <|im_end|>
Tokenize(segs) == Prompt(2 * Len(segs))

\* variant of ChoosePrompt that forgets to reset button_msg
ChoosePromptKeepsButton(button, chat) ==
    LET b == IF button = NoKey THEN SentinelText ELSE button
    IN IF b # SentinelText
       THEN [prompt |-> b, button_msg |-> b, from_button |-> TRUE]
       ELSE [prompt |-> chat, button_msg |-> b, from_button |-> FALSE]

\* main lines 334-343: the prompt of the script run and button_msg after
ChoosePrompt(button, chat) ==
    LET b == IF button = NoKey THEN SentinelText ELSE button
    IN IF b # SentinelText
       THEN [prompt |-> b, button_msg |-> SentinelText, from_button |-> TRUE]
       ELSE [prompt |-> chat, button_msg |-> b, from_button |-> FALSE]

\* ------------------------------------------------------- token selection
\* score of a token excluded by the logits warper (top-p): softmax gives it
\* probability 0
NegInf == -1

\* The model and the logits processors are deterministic functions of the
\* token sequence.  Two score functions stand for the models a run can be
\* given: "flat" scores every token alike; "peaked" prefers one token that
\* moves with the length of the sequence, ties it with the highest id and
\* excludes one other token.
Weights == {"flat", "peaked"}

\* lines 132-145: outputs.logits[:, -1, :] after logits_processor and
\* logits_warper
ModelScores(w, ids) ==
    [t \in Vocab |->
        IF w = "flat" THEN 0
        ELSE IF t = Len(ids) % Cardinality(Vocab) THEN 2
        ELSE IF t = EosAdd THEN 2
        ELSE IF t = (Len(ids) + 1) % Cardinality(Vocab) THEN NegInf
        ELSE 1]

\* variant of ArgMaxFirst that returns the highest index among the maxima
ArgMaxLast(scores) ==
    CHOOSE t \in DOMAIN scores :
        /\ \A u \in DOMAIN scores : scores[u] <= scores[t]
        /\ \A u \in DOMAIN scores : scores[u] = scores[t] => u <= t

\* line 152: torch.argmax returns the index of the first maximal value
\* (softmax at line 148 is monotone, so the maxima of probs are those of
\* the scores)
ArgMaxFirst(scores) ==
    CHOOSE t \in DOMAIN scores :
        /\ \A u \in DOMAIN scores : scores[u] <= scores[t]
        /\ \A u \in DOMAIN scores : scores[u] = scores[t] => t <= u

\* variant of SelectTokens that samples whatever do_sample says
SelectTokensAlwaysSamples(do_sample, scores) ==
    {t \in DOMAIN scores : scores[t] # NegInf}

\* lines 148-152: the tokens the step can select: with do_sample any token
\* of non-zero probability (torch.multinomial), else the arg-max
SelectTokens(do_sample, scores) ==
    IF do_sample THEN {t \in DOMAIN scores : scores[t] # NegInf}
    ELSE {ArgMaxFirst(scores)}

\* ------------------------------------------------------------------- Init
NoConfig == [max_length |-> None, max_new_tokens |-> None, eos_ids |-> <<>>,
             do_sample |-> TRUE]

Init ==
    /\ model_generation_config \in
         [max_length : {None, MaxLength},
          max_new_tokens : {None} \cup 0..MaxNewTokens,
          eos_ids : {<<EosCfg>>, <<EosCfg, EosAdd>>, <<EosAdd, EosCfg>>},
          do_sample : BOOLEAN]
    /\ model_weights \in Weights
    /\ kwargs \in [max_length : {None} \cup 1..MaxLength,
                   max_new_tokens : {None, MaxNewTokens}]
    /\ additional_eos_token_id \in {None, EosAdd}
    /\ stopping_criteria_arg \in {<<>>, <<[kind |-> "StopToken", arg |-> TokB]>>}
    /\ prompt_ids \in {Prompt(n) : n \in 1..MaxPromptLen}
    /\ pc = "created"
    /\ generation_config = NoConfig
    /\ eos_token_id = <<>>
    /\ input_length = 0
    /\ input_ids = <<>>
    /\ unfinished_sequences = 1
    /\ stopping_criteria = <<>>
    /\ emitted = <<>>
    /\ diagnostics = {}
    /\ error = "none"
    /\ step = 0
    /\ cuda_cache = "empty"
    /\ gr_pc = "streaming"
    /\ runs = <<>>
    \* one call of get_response on a prompt of any length; the texts of the
    \* turn are left out
    /\ messages_in_state = TRUE
    /\ messages = <<>>
    /\ button_msg = NoKey
    /\ page_switched = FALSE
    /\ main_pc = "call"
    /\ event = "load"
    /\ chat_value = NoText
    /\ turn_prompt = NoText
    /\ first_input = TRUE
    /\ real_prompt = <<>>
    /\ cart_clicks = 0
    /\ cart_turns = 0
    /\ main_runs = 0
    /\ aborted_before = FALSE

\* ---------------------------------------------------------------- actions
args == <<model_generation_config, model_weights, kwargs, additional_eos_token_id,
          stopping_criteria_arg, prompt_ids>>

\* state of the other specifications, untouched by a single run
session == <<messages_in_state, messages, button_msg, page_switched,
             main_pc, event, chat_value, turn_prompt, first_input,
             real_prompt, cart_clicks, cart_turns, main_runs, aborted_before>>

others == <<runs, session>>

session_rest == <<messages_in_state, button_msg, page_switched, event,
                  chat_value, turn_prompt, first_input, real_prompt,
                  cart_clicks, cart_turns, main_runs>>

\* variant of SharedConfigAfter without the deep copy: the prologue writes
\* into model.generation_config itself
SharedConfigAliased(shared, local) == local

\* line 71: the prologue works on copy.deepcopy(generation_config); the
\* writes of lines 72, 80 and 93 (local) do not reach the shared object
SharedConfigAfter(shared, local) == shared

\* lines 63-129, run on the first pull of the generator
Resolve ==
    /\ pc = "created"
    /\ gr_pc = "streaming"
    /\ LET cfg == Update(model_generation_config, kwargs)
           n == Len(prompt_ids)
           ml == ResolveMaxLength(kwargs, cfg, n)
       IN /\ input_ids' = prompt_ids
          /\ input_length' = n
          /\ eos_token_id' = EosList(cfg, additional_eos_token_id)
          /\ generation_config' = [cfg EXCEPT !.max_length = ml]
          /\ model_generation_config' =
               SharedConfigAfter(model_generation_config,
                   [cfg EXCEPT !.max_length = ml,
                               !.eos_ids = EosList(cfg, additional_eos_token_id)])
          /\ IF LengthCheckRaises(n, ml)
             THEN \* line 105: int >= None raises TypeError
                  /\ pc' = "failed"
                  /\ error' = "TypeError"
                  /\ diagnostics' = {}
                  /\ stopping_criteria' = <<>>
             ELSE /\ pc' = "running"
                  /\ error' = "none"
                  /\ diagnostics' = ResolveDiagnostics(kwargs, cfg, n)
                  /\ stopping_criteria' = GetStoppingCriteria(ml, stopping_criteria_arg)
    /\ unfinished_sequences' = 1
    /\ UNCHANGED <<model_weights, kwargs, additional_eos_token_id,
                   stopping_criteria_arg, prompt_ids, others, emitted, step,
                   cuda_cache, gr_pc>>

\* variant of ForwardRaises that surfaces the text generated so far before
\* the run fails
ForwardRaisesEmitsPartial ==
    /\ pc = "running"
    /\ pc' = "failed"
    /\ error' = "ModelError"
    /\ step' = step + 1
    /\ emitted' = Append(emitted, OutputSlice(input_ids, input_length))
    /\ UNCHANGED <<args, others, generation_config, eos_token_id, input_length,
                   input_ids, unfinished_sequences, stopping_criteria,
                   diagnostics, cuda_cache, gr_pc>>

\* lines 132-139: the model forward computation raises
ForwardRaises ==
    /\ pc = "running"
    /\ pc' = "failed"
    /\ error' = "ModelError"
    /\ step' = step + 1
    /\ UNCHANGED <<args, others, generation_config, eos_token_id, input_length,
                   input_ids, unfinished_sequences, stopping_criteria,
                   emitted, diagnostics, cuda_cache, gr_pc>>

\* variant of Step that makes the stop test before the yield, so that the
\* stopping step yields nothing
StepStopsBeforeYield ==
    /\ pc = "running"
    /\ \E tok \in SelectTokens(generation_config.do_sample,
                             ModelScores(model_weights, input_ids)) :
         LET ids == Append(input_ids, tok)
             stripped == StripEos(OutputSlice(ids, input_length), eos_token_id, 1)
             stop == ~NotAnyEos(tok, eos_token_id)
                       \/ StoppingCriteriaHolds(stopping_criteria, ids)
         IN /\ input_ids' = ids
            /\ unfinished_sequences' =
                 unfinished_sequences * (IF NotAnyEos(tok, eos_token_id) THEN 1 ELSE 0)
            /\ IF stop
               THEN /\ emitted' = emitted
                    /\ pc' = "stopped"
                    /\ error' = "none"
               ELSE IF stripped.ok
               THEN /\ emitted' = Append(emitted, stripped.ids)
                    /\ pc' = "yielded"
                    /\ error' = "none"
               ELSE /\ emitted' = emitted
                    /\ pc' = "failed"
                    /\ error' = "IndexError"
    /\ step' = step + 1
    /\ cuda_cache' = "held"
    /\ UNCHANGED <<args, others, generation_config, eos_token_id, input_length,
                   stopping_criteria, diagnostics, gr_pc>>

\* lines 132-166: one loop iteration up to the yield
Step ==
    /\ pc = "running"
    /\ \E tok \in SelectTokens(generation_config.do_sample,
                             ModelScores(model_weights, input_ids)) :
         LET ids == Append(input_ids, tok)
             stripped == StripEos(OutputSlice(ids, input_length), eos_token_id, 1)
         IN /\ input_ids' = ids
            /\ unfinished_sequences' =
                 unfinished_sequences * (IF NotAnyEos(tok, eos_token_id) THEN 1 ELSE 0)
            /\ IF stripped.ok
               THEN /\ emitted' = Append(emitted, stripped.ids)
                    /\ pc' = "yielded"
                    /\ error' = "none"
               ELSE /\ emitted' = emitted
                    /\ pc' = "failed"
                    /\ error' = "IndexError"
    /\ step' = step + 1
    /\ cuda_cache' = "held"
    /\ UNCHANGED <<args, others, generation_config, eos_token_id, input_length,
                   stopping_criteria, diagnostics, gr_pc>>

\* variant of Resume whose stop test joins the two sources with `and`
ResumeStopsOnBoth ==
    /\ pc = "yielded"
    /\ gr_pc = "streaming"
    /\ pc' = IF unfinished_sequences = 0
                /\ StoppingCriteriaHolds(stopping_criteria, input_ids)
             THEN "stopped" ELSE "running"
    /\ UNCHANGED <<args, others, generation_config, eos_token_id, input_length,
                   input_ids, unfinished_sequences, stopping_criteria,
                   emitted, diagnostics, error, step, cuda_cache, gr_pc>>

\* lines 169-170, run when get_response pulls the next value (line 264)
Resume ==
    /\ pc = "yielded"
    /\ gr_pc = "streaming"
    /\ pc' = IF unfinished_sequences = 0
                \/ StoppingCriteriaHolds(stopping_criteria, input_ids)
             THEN "stopped" ELSE "running"
    /\ UNCHANGED <<args, others, generation_config, eos_token_id, input_length,
                   input_ids, unfinished_sequences, stopping_criteria,
                   emitted, diagnostics, error, step, cuda_cache, gr_pc>>

\* get_response lines 275-284: the stream ended, the reply is stored and
\* torch.cuda.empty_cache() is called
Finish ==
    /\ pc = "stopped"
    /\ gr_pc = "streaming"
    /\ gr_pc' = "done"
    /\ cuda_cache' = "released"
    /\ messages' = Append(messages, RobotMessage(Last(emitted)))
    \* line 359 is the last statement of main
    /\ main_pc' = IF main_pc = "reply" THEN "idle" ELSE main_pc
    /\ aborted_before' = aborted_before
    /\ UNCHANGED <<args, runs, session_rest, pc, generation_config, eos_token_id, input_length,
                   input_ids, unfinished_sequences, stopping_criteria,
                   emitted, diagnostics, error, step>>

\* get_response line 264: the exception of the generator propagates out of
\* the for loop; lines 275-284 are not executed
Abort ==
    /\ pc = "failed"
    /\ gr_pc = "streaming"
    /\ gr_pc' = "aborted"
    \* the exception ends the script run
    /\ main_pc' = IF main_pc = "call" THEN "call" ELSE "idle"
    /\ aborted_before' = (aborted_before \/ main_pc # "reply")
    /\ messages' = messages
    /\ UNCHANGED <<args, runs, session_rest, pc, generation_config, eos_token_id, input_length,
                   input_ids, unfinished_sequences, stopping_criteria,
                   emitted, diagnostics, error, step, cuda_cache>>

Next == Resolve \/ ForwardRaises \/ Step \/ Resume \/ Finish \/ Abort

Spec == Init /\ [][Next]_vars

\* ------------------------------------------- two runs on the same model
\* Two calls of generate_interactive whose generators are pulled in any
\* order (sequentially or step by step in turn).  They share
\* model.generation_config and the model; every other object is local to a
\* call and kept in the run's record.
RunIds == {1, 2}

RunArgs ==
    [kwargs : [max_length : {None, MaxLength - 1}, max_new_tokens : {None}],
     additional_eos_token_id : {None, EosAdd},
     prompt_ids : {Prompt(1), Prompt(MaxPromptLen)}]

NewRun(a) ==
    [pc |-> "created",
     kwargs |-> a.kwargs,
     additional_eos_token_id |-> a.additional_eos_token_id,
     prompt_ids |-> a.prompt_ids,
     generation_config |-> NoConfig,
     eos_token_id |-> <<>>,
     input_length |-> 0,
     input_ids |-> <<>>,
     unfinished_sequences |-> 1,
     stopping_criteria |-> <<>>,
     emitted |-> <<>>,
     error |-> "none",
     step |-> 0]

\* the shared configuration as the model was loaded
LoadedConfig(do_sample) ==
    [max_length |-> MaxLength, max_new_tokens |-> None,
     eos_ids |-> <<EosCfg>>, do_sample |-> do_sample]

single == <<kwargs, additional_eos_token_id, stopping_criteria_arg,
            prompt_ids, pc, generation_config, eos_token_id, input_length,
            input_ids, unfinished_sequences, stopping_criteria, emitted,
            diagnostics, error, step, cuda_cache, gr_pc>>

\* no chat session
NoSession ==
    /\ messages_in_state = FALSE
    /\ messages = <<>>
    /\ button_msg = NoKey
    /\ page_switched = FALSE
    /\ main_pc = "call"
    /\ event = "load"
    /\ chat_value = NoText
    /\ turn_prompt = NoText
    /\ first_input = FALSE
    /\ real_prompt = <<>>
    /\ cart_clicks = 0
    /\ cart_turns = 0
    /\ main_runs = 0
    /\ aborted_before = FALSE

InitRuns ==
    /\ model_generation_config \in {LoadedConfig(b) : b \in BOOLEAN}
    /\ model_weights \in Weights
    /\ runs \in [RunIds -> {NewRun(a) : a \in RunArgs}]
    /\ NoSession
    \* no call outside the two runs
    /\ kwargs = [max_length |-> None, max_new_tokens |-> None]
    /\ additional_eos_token_id = None
    /\ stopping_criteria_arg = <<>>
    /\ prompt_ids = <<>>
    /\ pc = "created"
    /\ generation_config = NoConfig
    /\ eos_token_id = <<>>
    /\ input_length = 0
    /\ input_ids = <<>>
    /\ unfinished_sequences = 1
    /\ stopping_criteria = <<>>
    /\ emitted = <<>>
    /\ diagnostics = {}
    /\ error = "none"
    /\ step = 0
    /\ cuda_cache = "empty"
    /\ gr_pc = "streaming"

\* lines 63-129 for run r
RunResolve(r) ==
    LET run == runs[r]
        cfg == Update(model_generation_config, run.kwargs)
        n == Len(run.prompt_ids)
        ml == ResolveMaxLength(run.kwargs, cfg, n)
        eos == EosList(cfg, run.additional_eos_token_id)
        raises == LengthCheckRaises(n, ml)
    IN /\ run.pc = "created"
       /\ runs' = [runs EXCEPT ![r] =
            [run EXCEPT !.input_ids = run.prompt_ids,
                        !.input_length = n,
                        !.eos_token_id = eos,
                        !.generation_config = [cfg EXCEPT !.max_length = ml],
                        !.pc = IF raises THEN "failed" ELSE "running",
                        !.error = IF raises THEN "TypeError" ELSE "none",
                        !.stopping_criteria =
                            IF raises THEN <<>> ELSE GetStoppingCriteria(ml, <<>>),
                        !.unfinished_sequences = 1]]
       /\ model_generation_config' =
            SharedConfigAfter(model_generation_config,
                [cfg EXCEPT !.max_length = ml, !.eos_ids = eos])
       /\ UNCHANGED <<model_weights, single, session>>

\* lines 132-139 for run r: the forward computation raises
RunForwardRaises(r) ==
    /\ runs[r].pc = "running"
    /\ runs' = [runs EXCEPT ![r].pc = "failed",
                            ![r].error = "ModelError",
                            ![r].step = @ + 1]
    /\ UNCHANGED <<model_generation_config, model_weights, single, session>>

\* lines 132-166 for run r
RunStep(r) ==
    LET run == runs[r]
    IN /\ run.pc = "running"
       /\ \E tok \in SelectTokens(run.generation_config.do_sample,
                                ModelScores(model_weights, run.input_ids)) :
            LET ids == Append(run.input_ids, tok)
                stripped == StripEos(OutputSlice(ids, run.input_length),
                                     run.eos_token_id, 1)
            IN runs' = [runs EXCEPT ![r] =
                 [run EXCEPT
                    !.input_ids = ids,
                    !.unfinished_sequences =
                        @ * (IF NotAnyEos(tok, run.eos_token_id) THEN 1 ELSE 0),
                    !.emitted = IF stripped.ok THEN Append(@, stripped.ids) ELSE @,
                    !.pc = IF stripped.ok THEN "yielded" ELSE "failed",
                    !.error = IF stripped.ok THEN "none" ELSE "IndexError",
                    !.step = @ + 1]]
       /\ UNCHANGED <<model_generation_config, model_weights, single, session>>

\* lines 169-170 for run r
RunResume(r) ==
    LET run == runs[r]
    IN /\ run.pc = "yielded"
       /\ runs' = [runs EXCEPT ![r].pc =
            IF run.unfinished_sequences = 0
               \/ StoppingCriteriaHolds(run.stopping_criteria, run.input_ids)
            THEN "stopped" ELSE "running"]
       /\ UNCHANGED <<model_generation_config, model_weights, single, session>>

NextRuns ==
    \E r \in RunIds :
        RunResolve(r) \/ RunForwardRaises(r) \/ RunStep(r) \/ RunResume(r)

SpecRuns == InitRuns /\ [][NextRuns]_vars

\* ------------------------------------------------------ the chat session
\* The page script main is run once per event; get_response runs inside it
\* and drives the generator actions above.  get_response itself passes
\* max_length explicitly (line 224), additional_eos_token_id (line 268) and
\* no stopping criteria.
InitSession ==
    /\ model_generation_config = LoadedConfig(TRUE)
    /\ model_weights \in Weights
    /\ kwargs = [max_length |-> MaxLength, max_new_tokens |-> None]
    /\ additional_eos_token_id = EosAdd
    /\ stopping_criteria_arg = <<>>
    /\ prompt_ids = <<>>
    /\ pc = "created"
    /\ generation_config = NoConfig
    /\ eos_token_id = <<>>
    /\ input_length = 0
    /\ input_ids = <<>>
    /\ unfinished_sequences = 1
    /\ stopping_criteria = <<>>
    /\ emitted = <<>>
    /\ diagnostics = {}
    /\ error = "none"
    /\ step = 0
    /\ cuda_cache = "empty"
    /\ gr_pc = "done"
    /\ runs = <<>>
    \* the page is opened: first script run, nothing in the session yet
    /\ messages_in_state = FALSE
    /\ messages = <<>>
    /\ button_msg = NoKey
    /\ page_switched = FALSE
    /\ main_pc = "rerun"
    /\ event = "load"
    /\ chat_value = NoText
    /\ turn_prompt = NoText
    /\ first_input = FALSE
    /\ real_prompt = <<>>
    /\ cart_clicks = 0
    /\ cart_turns = 0
    /\ main_runs = 1
    /\ aborted_before = FALSE

call == <<model_generation_config, model_weights, kwargs,
          additional_eos_token_id, stopping_criteria_arg>>

\* lines 264-270: a new generator for the assembled prompt
NewGenerator(segs) ==
    /\ prompt_ids' = Tokenize(segs)
    /\ pc' = "created"
    /\ gr_pc' = "streaming"
    /\ generation_config' = NoConfig
    /\ eos_token_id' = <<>>
    /\ input_length' = 0
    /\ input_ids' = <<>>
    /\ unfinished_sequences' = 1
    /\ stopping_criteria' = <<>>
    /\ emitted' = <<>>
    /\ diagnostics' = {}
    /\ error' = "none"
    /\ step' = 0

generator == <<prompt_ids, pc, gr_pc, generation_config, eos_token_id,
               input_length, input_ids, unfinished_sequences,
               stopping_criteria, emitted, diagnostics, error, step>>

\* lines 173-179, followed by the rerun of the script that every widget
\* event causes
OnBtnClick(info) ==
    /\ main_pc = "idle"
    /\ main_runs < MaxMainRuns
    /\ IF info = "clear"
       THEN \* del st.session_state.messages
            /\ messages_in_state
            /\ messages_in_state' = FALSE
            /\ messages' = <<>>
            /\ UNCHANGED <<page_switched, button_msg, cart_clicks>>
       ELSE IF info = "return"
       THEN /\ page_switched' = TRUE
            /\ UNCHANGED <<messages_in_state, messages, button_msg, cart_clicks>>
       ELSE /\ button_msg' = PhraseText
            /\ cart_clicks' = cart_clicks + 1
            /\ UNCHANGED <<messages_in_state, messages, page_switched>>
    /\ event' = info
    /\ chat_value' = NoText
    /\ main_pc' = "rerun"
    /\ main_runs' = main_runs + 1
    /\ UNCHANGED <<call, generator, cuda_cache, runs, turn_prompt,
                   first_input, real_prompt, cart_turns, aborted_before>>

\* the user submits a text in st.chat_input (line 343): the script reruns
ChatSubmit ==
    /\ main_pc = "idle"
    /\ main_runs < MaxMainRuns
    /\ event' = "chat"
    /\ chat_value' = ChatText
    /\ main_pc' = "rerun"
    /\ main_runs' = main_runs + 1
    /\ UNCHANGED <<call, generator, cuda_cache, runs, messages_in_state,
                   messages, button_msg, page_switched, turn_prompt,
                   first_input, real_prompt, cart_clicks, cart_turns,
                   aborted_before>>

\* main lines 334-359: the prompt is chosen and, if there is one, the reply
\* turn is started; msgs is the history at line 334
PromptStage(msgs) ==
    LET chosen == ChoosePrompt(button_msg, chat_value)
        start == GetResponseStart(msgs, chosen.prompt, FALSE)
    IN /\ button_msg' = chosen.button_msg
       /\ IF chosen.prompt # NoText
          THEN /\ turn_prompt' = chosen.prompt
               /\ first_input' = FALSE
               /\ cart_turns' = cart_turns + (IF chosen.from_button THEN 1 ELSE 0)
               /\ messages' = start.messages
               /\ real_prompt' = start.real_prompt
               /\ IF start.ok
                  THEN /\ main_pc' = "reply"
                       /\ NewGenerator(start.real_prompt)
                       /\ aborted_before' = aborted_before
                  ELSE /\ main_pc' = "idle"
                       /\ aborted_before' = TRUE
                       /\ UNCHANGED generator
          ELSE /\ main_pc' = "idle"
               /\ messages' = msgs
               /\ UNCHANGED <<generator, turn_prompt, first_input, real_prompt,
                              cart_turns, aborted_before>>

\* main lines 302-332 (and on to line 359 when the history is not empty)
MainBegin ==
    /\ main_pc = "rerun"
    /\ IF page_switched
       THEN \* line 303: st.switch_page leaves this page
            /\ main_pc' = "left"
            /\ UNCHANGED <<generator, messages_in_state, messages, button_msg,
                           turn_prompt, first_input, real_prompt, cart_turns,
                           aborted_before>>
       ELSE LET msgs == IF messages_in_state THEN messages ELSE <<>>
            IN /\ messages_in_state' = TRUE
               /\ IF Len(msgs) = 0
                  THEN \* lines 321-332: the product introduction turn
                       LET start == GetResponseStart(msgs, FirstInputText, TRUE)
                       IN /\ turn_prompt' = FirstInputText
                          /\ first_input' = TRUE
                          /\ messages' = start.messages
                          /\ real_prompt' = start.real_prompt
                          /\ main_pc' = "intro"
                          /\ NewGenerator(start.real_prompt)
                          /\ UNCHANGED <<button_msg, cart_turns, aborted_before>>
                  ELSE PromptStage(msgs)
    /\ UNCHANGED <<call, cuda_cache, runs, page_switched, event, chat_value,
                   cart_clicks, main_runs>>

\* main lines 334-359 after the introduction turn has returned
MainPrompt ==
    /\ main_pc = "intro"
    /\ gr_pc = "done"
    /\ PromptStage(messages)
    /\ UNCHANGED <<call, cuda_cache, runs, messages_in_state, page_switched,
                   event, chat_value, cart_clicks, main_runs>>

NextSession ==
    \/ \E info \in {"clear", "return", "cart"} : OnBtnClick(info)
    \/ ChatSubmit
    \/ MainBegin
    \/ MainPrompt
    \/ Resolve
    \/ ForwardRaises
    \/ Step
    \/ Resume
    \/ Finish
    \/ Abort

SpecSession == InitSession /\ [][NextSession]_vars

\* ------------------------------------------- get_response on any history
\* get_response is applied to a history of any roles and to any prompt.
Texts == {ChatText, PhraseText}

Histories ==
    UNION {[1..n -> [role : Roles, content : Texts]] : n \in 0..MaxHistory}

InitCombine ==
    /\ model_generation_config = LoadedConfig(TRUE)
    /\ model_weights = "flat"
    /\ kwargs = [max_length |-> MaxLength, max_new_tokens |-> None]
    /\ additional_eos_token_id = EosAdd
    /\ stopping_criteria_arg = <<>>
    /\ prompt_ids = <<>>
    /\ pc = "created"
    /\ generation_config = NoConfig
    /\ eos_token_id = <<>>
    /\ input_length = 0
    /\ input_ids = <<>>
    /\ unfinished_sequences = 1
    /\ stopping_criteria = <<>>
    /\ emitted = <<>>
    /\ diagnostics = {}
    /\ error = "none"
    /\ step = 0
    /\ cuda_cache = "empty"
    /\ gr_pc = "done"
    /\ runs = <<>>
    /\ messages_in_state = TRUE
    /\ messages \in Histories
    /\ button_msg = SentinelText
    /\ page_switched = FALSE
    /\ main_pc = "ready"
    /\ event = "load"
    /\ chat_value = NoText
    /\ turn_prompt = NoText
    /\ first_input = FALSE
    /\ real_prompt = <<>>
    /\ cart_clicks = 0
    /\ cart_turns = 0
    /\ main_runs = 0
    /\ aborted_before = FALSE

\* get_response lines 255-264 on the history at hand
CallGetResponse ==
    /\ main_pc = "ready"
    /\ \E prompt \in Texts \cup {FirstInputText} : \E fi \in BOOLEAN :
         LET start == GetResponseStart(messages, prompt, fi)
         IN /\ turn_prompt' = prompt
            /\ first_input' = fi
            /\ messages' = start.messages
            /\ real_prompt' = start.real_prompt
            /\ IF start.ok
               THEN /\ main_pc' = "called"
                    /\ NewGenerator(start.real_prompt)
                    /\ aborted_before' = aborted_before
               ELSE /\ main_pc' = "raised"
                    /\ aborted_before' = TRUE
                    /\ UNCHANGED generator
    /\ UNCHANGED <<call, cuda_cache, runs, messages_in_state, button_msg,
                   page_switched, event, chat_value, cart_clicks, cart_turns,
                   main_runs>>

SpecCombine == InitCombine /\ [][CallGetResponse]_vars

\* ------------------------------------------------------- derived notions
\* the tokens generated in the first i completed iterations
Gen(i) == SubSeq(input_ids, input_length + 1, input_length + i)

\* the token appended by the latest iteration is an end-of-sequence id
LastIsEos ==
    /\ Len(input_ids) > input_length
    /\ \E i \in 1..Len(eos_token_id) : Last(input_ids) = eos_token_id[i]

\* no generated token is an end-of-sequence id
NoEosGenerated ==
    \A j \in input_length + 1..Len(input_ids) :
        \A i \in 1..Len(eos_token_id) : input_ids[j] # eos_token_id[i]

\* the prologue has run and did not raise
Resolved == pc # "created" /\ error # "TypeError"

\* the values of the call after update(**kwargs)
EffMaxNewTokens == Update(model_generation_config, kwargs).max_new_tokens

EffMaxLength == Update(model_generation_config, kwargs).max_length

\* a stop source holds on the current sequence
StopSource == LastIsEos \/ StoppingCriteriaHolds(stopping_criteria, input_ids)

Max(a, b) == IF a >= b THEN a ELSE b

\* ------------------------------------------------------------------ C1
\* C1: whenever the token selected at step k (k >= 1, k = 1 included) is
\* any id of the end-of-sequence list, the run does not fail at that step,
\* the text emitted at step k decodes the generated tokens without that
\* end-of-sequence token, and no further step is performed (the loop is
\* never back in "running" with an end-of-sequence token appended last).
C1_EosStopsAndIsStripped ==
    (Resolved /\ LastIsEos /\ error # "ModelError") =>
        /\ pc # "failed"
        /\ pc # "running"
        /\ Len(emitted) = step
        /\ emitted[step] = Front(Gen(step))

\* ------------------------------------------------------------------ C2
\* C2 (as stated): a run performs at most max_length - prompt_length decode
\* steps, also when prompt_length >= max_length (then none at all).
C2_AtMostMaxLengthMinusPrompt ==
    Resolved => Len(input_ids) - input_length
                  <= Max(0, generation_config.max_length - input_length)

\* C2 (amended): a run performs at most max(1, max_length - prompt_length)
\* decode steps whatever tokens are sampled: the loop tests the stopping
\* predicate only after a step, so one step is always performed.
C2_AtMostMaxOfOneAndDifference ==
    Resolved => step <= Max(1, generation_config.max_length - input_length)

C2_Witness ==
    /\ pc = "stopped"
    /\ step >= 2
    /\ step = generation_config.max_length - input_length
    /\ unfinished_sequences = 1

\* ------------------------------------------------------------------ C3
\* C3: whenever max_new_tokens is set, the max_length of the run and of its
\* length criterion is max_new_tokens + prompt_length, also when a
\* max_length was passed explicitly, in every state from the end of the
\* prologue to the end of the run.
C3_MaxNewTokensWins ==
    (pc # "created" /\ EffMaxNewTokens # None) =>
        /\ error # "TypeError"
        /\ generation_config.max_length = EffMaxNewTokens + Len(prompt_ids)
        /\ stopping_criteria[1] =
             [kind |-> "MaxLength", arg |-> EffMaxNewTokens + Len(prompt_ids)]

C3_Witness ==
    /\ pc = "stopped"
    /\ step >= 2
    /\ kwargs.max_length # None
    /\ EffMaxNewTokens # None
    /\ kwargs.max_length # EffMaxNewTokens + Len(prompt_ids)

\* ------------------------------------------------------------------ C4
\* C4: of two consecutive emissions the later is the earlier one or the
\* earlier one extended by one token, and the i-th emission is the whole
\* generated suffix token_ids[prompt_length:] after i steps (less a
\* trailing end-of-sequence token), never a delta.
C4_PrefixExtension ==
    /\ \A i \in 1..Len(emitted) - 1 :
         \/ emitted[i + 1] = emitted[i]
         \/ /\ Len(emitted[i + 1]) = Len(emitted[i]) + 1
            /\ Front(emitted[i + 1]) = emitted[i]
    /\ \A i \in 1..Len(emitted) :
         \/ emitted[i] = Gen(i)
         \/ emitted[i] = Front(Gen(i)) /\ i = Len(emitted) /\ LastIsEos

C4_Witness ==
    /\ Len(emitted) = 3
    /\ emitted[2] = <<TokA, TokB>>
    /\ emitted[3] = emitted[2]

\* ------------------------------------------------------------------ C5
\* C5: with max_new_tokens = n >= 1, no caller-supplied criterion and no
\* failing step, a run in which no end-of-sequence token is selected is
\* still running before step n, and once stopped it has performed exactly
\* n steps, emitted exactly n texts and its length predicate holds.
C5_ExactlyNSteps ==
    (Resolved /\ EffMaxNewTokens >= 1 /\ stopping_criteria_arg = <<>>
       /\ NoEosGenerated /\ error = "none") =>
        /\ step <= EffMaxNewTokens
        /\ Len(emitted) = step
        /\ pc = "stopped" =>
             /\ step = EffMaxNewTokens
             /\ Len(input_ids) >= generation_config.max_length
        /\ pc = "running" => step < EffMaxNewTokens

C5_Witness ==
    /\ pc = "stopped"
    /\ EffMaxNewTokens = 3
    /\ Len(prompt_ids) = 2
    /\ generation_config.max_length = 5
    /\ stopping_criteria_arg = <<>>
    /\ NoEosGenerated
    /\ Len(emitted) = 3

\* ------------------------------------------------------------------ C6
\* C6: the loop has left RUNNING at the end of a step exactly when a stop
\* source holds: a stopped run, or one that failed while emitting, has an
\* end-of-sequence id (any of the list) appended last or a stopping
\* criterion true on the sequence; a run back in "running" after a step
\* has neither.
C6_StopIffAnySource ==
    /\ pc = "stopped" => StopSource
    /\ (pc = "failed" /\ error = "IndexError") => StopSource
    /\ (pc = "running" /\ step >= 1) => ~StopSource

C6_Witness ==
    /\ pc = "stopped"
    /\ Len(eos_token_id) >= 2
    /\ Last(input_ids) = eos_token_id[2]
    /\ Last(input_ids) # eos_token_id[1]
    /\ ~StoppingCriteriaHolds(stopping_criteria, input_ids)

\* ------------------------------------------------------------------ C7
\* C7: when the forward computation raises at step k the run has emitted
\* exactly the k-1 texts of the completed steps, each the one a failure-free
\* run produces for the same tokens, no token or text of step k exists,
\* and from then on nothing more is emitted.
C7_ForwardFailureEmitsNothing ==
    /\ [](pc = "failed" /\ error = "ModelError" =>
            /\ Len(emitted) = step - 1
            /\ Len(input_ids) = input_length + step - 1
            /\ \A i \in 1..step - 1 :
                 emitted[i] = StripEos(Gen(i), eos_token_id, 1).ids)
    /\ [][pc = "failed" => pc' = "failed" /\ emitted' = emitted]_vars

C7_Witness ==
    /\ pc = "failed"
    /\ error = "ModelError"
    /\ step = 3
    /\ Len(emitted) = 2
    /\ gr_pc = "aborted"

\* ------------------------------------------------------------------ C8
\* C8: once get_response has left the stream, by completion or by an
\* exception of a step, the computation state acquired by the run has been
\* released.
C8_ReleasedOnEveryExit ==
    gr_pc \in {"done", "aborted"} => cuda_cache # "held"

\* ------------------------------------------------------------------ C9
\* C9 (as stated): with neither max_length nor max_new_tokens available the
\* run fails with a ConfigurationError before any forward computation and
\* before any emission.
C9_FailsWithConfigurationError ==
    (pc # "created" /\ EffMaxLength = None /\ EffMaxNewTokens = None) =>
        /\ pc = "failed"
        /\ error = "ConfigurationError"
        /\ step = 0
        /\ emitted = <<>>

\* C9 (amended): with neither available the run fails before any forward
\* computation and before any emission, with the TypeError raised by the
\* length comparison of the prologue.
C9_FailsWithTypeError ==
    (pc # "created" /\ EffMaxLength = None /\ EffMaxNewTokens = None) =>
        /\ pc = "failed"
        /\ error = "TypeError"
        /\ step = 0
        /\ emitted = <<>>
        /\ cuda_cache = "empty"

C9_Witness ==
    /\ EffMaxLength = None
    /\ EffMaxNewTokens = None
    /\ pc = "failed"
    /\ gr_pc = "aborted"

\* ----------------------------------------------------------------- C10
\* C10 (as stated): with max_new_tokens not provided and a max_length
\* provided, explicitly or by the config default, the run uses that
\* max_length unchanged, is not aborted, and the legacy-mode warning is
\* surfaced.
C10_LegacyWarningAlways ==
    (pc # "created" /\ EffMaxNewTokens = None /\ EffMaxLength # None) =>
        /\ error # "TypeError"
        /\ generation_config.max_length = EffMaxLength
        /\ "max_length_default_deprecated" \in diagnostics

\* C10 (amended): in that case the run uses that max_length unchanged and
\* is not aborted by the prologue; the legacy-mode warning is surfaced
\* exactly when the max_length comes from the config default, not when the
\* caller passed it explicitly.
C10_LegacyWarningOnlyForDefault ==
    (pc # "created" /\ EffMaxNewTokens = None /\ EffMaxLength # None) =>
        /\ error # "TypeError"
        /\ generation_config.max_length = EffMaxLength
        /\ stopping_criteria[1] = [kind |-> "MaxLength", arg |-> EffMaxLength]
        /\ "max_length_default_deprecated" \in diagnostics
             <=> kwargs.max_length = None

C10_Witness ==
    /\ pc = "stopped"
    /\ kwargs.max_length # None
    /\ EffMaxNewTokens = None
    /\ "max_length_default_deprecated" \notin diagnostics
    /\ step >= 2


\* ----------------------------------------------------------------- C13
\* C13: every generated token is one token of the vocabulary selected
\* from the scores of the sequence before it: without do_sample it is an
\* index of the maximal score and the lowest such index, with do_sample its
\* score is not excluded (its probability is not zero); each step that
\* passes the forward computation appends exactly one token.
C13_SelectedToken ==
    /\ \A j \in input_length + 1..Len(input_ids) :
         LET sc == ModelScores(model_weights, SubSeq(input_ids, 1, j - 1))
             tok == input_ids[j]
         IN /\ tok \in Vocab
            /\ ~generation_config.do_sample =>
                 /\ \A u \in Vocab : sc[u] <= sc[tok]
                 /\ \A u \in Vocab : sc[u] = sc[tok] => tok <= u
            /\ generation_config.do_sample => sc[tok] # NegInf
    /\ Resolved =>
         Len(input_ids) - input_length
           = (IF error = "ModelError" THEN step - 1 ELSE step)

C13_Witness ==
    /\ pc = "stopped"
    /\ ~generation_config.do_sample
    /\ model_weights = "peaked"
    /\ Gen(step) = <<TokB, EosCfg>>
    /\ ModelScores(model_weights, Front(input_ids))[EosAdd]
         = ModelScores(model_weights, Front(input_ids))[EosCfg]

\* ----------------------------------------------------------------- C14
\* C14: after k completed steps the sequence holds prompt_length + k
\* tokens and k texts have been emitted; the stopping step has emitted its
\* text when the run stops, so a stopped run has emitted at least one
\* text, and a run fails without any emission only in its first step.
C14_OneTokenOneEmissionPerStep ==
    /\ pc \in {"running", "yielded", "stopped"} =>
         /\ Len(input_ids) = input_length + step
         /\ Len(emitted) = step
    /\ pc = "stopped" => Len(emitted) >= 1
    /\ (pc = "failed" /\ error # "TypeError") => Len(emitted) = step - 1
    /\ (Resolved /\ step >= 1 /\ emitted = <<>>) => (pc = "failed" /\ step = 1)

C14_Witness ==
    /\ pc = "stopped"
    /\ step = 3
    /\ Len(input_ids) = input_length + 3
    /\ Len(emitted) = 3

\* ----------------------------------------------------------------- C16
\* C16: no emitted token list holds an end-of-sequence id, and the i-th
\* emission has lost at most one of the i generated tokens.
C16_NoEosInEmission ==
    \A i \in 1..Len(emitted) :
        /\ \A j \in 1..Len(emitted[i]) :
             \A k \in 1..Len(eos_token_id) : emitted[i][j] # eos_token_id[k]
        /\ Len(emitted[i]) >= i - 1

C16_Witness ==
    /\ pc = "stopped"
    /\ Len(eos_token_id) >= 2
    /\ step >= 2
    /\ LastIsEos
    /\ emitted[step] = Front(Gen(step))


\* ----------------------------------------------------------------- C11
\* what a run computes from its own arguments and the configuration as
\* loaded, in any state after its prologue
RunAsAlone(run) ==
    LET cfg == Update(LoadedConfig(model_generation_config.do_sample), run.kwargs)
        n == Len(run.prompt_ids)
        eos == EosList(cfg, run.additional_eos_token_id)
        gen == SubSeq(run.input_ids, n + 1, Len(run.input_ids))
    IN /\ run.generation_config.max_length = ResolveMaxLength(run.kwargs, cfg, n)
       /\ run.eos_token_id = eos
       /\ run.input_length = n
       /\ SubSeq(run.input_ids, 1, n) = run.prompt_ids
       /\ \A j \in n + 1..Len(run.input_ids) :
            run.input_ids[j] \in
                SelectTokens(cfg.do_sample,
                             ModelScores(model_weights, SubSeq(run.input_ids, 1, j - 1)))
       /\ \A i \in 1..Len(run.emitted) :
            run.emitted[i] = StripEos(SubSeq(gen, 1, i), eos, 1).ids
       /\ run.unfinished_sequences =
            (IF gen # <<>> /\ ~NotAnyEos(Last(gen), eos) THEN 0 ELSE 1)

\* C11: whatever the interleaving of two runs on the same model, the
\* shared generation config (max_length, end-of-sequence ids) stays as
\* loaded, and the token sequence, unfinished flag, end-of-sequence list
\* and emissions of each run are those it computes from its own arguments,
\* as if it ran alone.
C11_RunsShareNothingMutable ==
    /\ model_generation_config = LoadedConfig(model_generation_config.do_sample)
    /\ \A r \in RunIds : runs[r].pc # "created" => RunAsAlone(runs[r])

C11_Witness ==
    /\ runs[1].pc = "stopped"
    /\ runs[1].additional_eos_token_id = EosAdd
    /\ runs[1].kwargs.max_length # None
    /\ runs[2].pc = "stopped"
    /\ runs[2].additional_eos_token_id = None
    /\ runs[2].kwargs.max_length = None
    /\ runs[2].step >= 2

\* ----------------------------------------------------------------- C12
IsPrefix(a, b) == Len(a) <= Len(b) /\ SubSeq(b, 1, Len(a)) = a

SameCall(a, b) ==
    /\ a.kwargs = b.kwargs
    /\ a.additional_eos_token_id = b.additional_eos_token_id
    /\ a.prompt_ids = b.prompt_ids

\* C12: without do_sample, two runs of the same call on the same model
\* agree at every step (the token sequence and the emissions of the one
\* that is behind are a prefix of the other's), and once both have ended
\* without a forward failure they hold the same token sequence, the same
\* number of emissions and the same final emission.
C12_GreedyRunsAgree ==
    \A a \in RunIds : \A b \in RunIds :
        (~model_generation_config.do_sample /\ SameCall(runs[a], runs[b])) =>
            /\ \/ IsPrefix(runs[a].input_ids, runs[b].input_ids)
               \/ IsPrefix(runs[b].input_ids, runs[a].input_ids)
            /\ \/ IsPrefix(runs[a].emitted, runs[b].emitted)
               \/ IsPrefix(runs[b].emitted, runs[a].emitted)
            /\ (runs[a].pc \in {"stopped", "failed"} /\ runs[a].error # "ModelError"
                  /\ runs[b].pc \in {"stopped", "failed"} /\ runs[b].error # "ModelError") =>
                 /\ runs[a].input_ids = runs[b].input_ids
                 /\ runs[a].emitted = runs[b].emitted
                 /\ runs[a].pc = runs[b].pc

C12_Witness ==
    /\ ~model_generation_config.do_sample
    /\ SameCall(runs[1], runs[2])
    /\ runs[1].pc = "stopped"
    /\ runs[2].pc = "stopped"
    /\ runs[1].step >= 2
    /\ Len(runs[2].emitted) >= 2


\* ------------------------------------------------------------------ C15
\* The history as it was when get_response was entered: line 260 has added
\* the user message to it unless first_input is set.
HistoryAtEntry ==
    IF main_pc = "called" /\ ~first_input THEN Front(messages) ELSE messages

TemplateOf(role) == IF role = "user" THEN "user_prompt" ELSE "robot_prompt"

\* C15: for a history h and a new text u the assembled prompt is the system
\* segment, one segment per message of h in order (user template for role
\* 'user', assistant template for role 'robot'), and exactly one
\* current-query segment for u; a message of any other role makes the call
\* raise; h is the history before u is appended, so u brings one segment
\* only, on top of those of earlier messages with the same text.
C15_PromptStructure ==
    LET h == HistoryAtEntry
        foreign == \E i \in 1..Len(h) : h[i].role \notin {"user", "robot"}
    IN /\ main_pc = "raised" => (foreign /\ real_prompt = <<>>)
       /\ main_pc = "called" =>
            /\ ~foreign
            /\ Len(real_prompt) = Len(h) + 2
            /\ real_prompt[1] = Segment("system", MetaInstruction)
            /\ \A i \in 1..Len(h) :
                 real_prompt[i + 1] = Segment(TemplateOf(h[i].role), h[i].content)
            /\ real_prompt[Len(h) + 2] = Segment("cur_query_prompt", turn_prompt)
            /\ Cardinality({i \in 1..Len(real_prompt) :
                              real_prompt[i].template = "cur_query_prompt"}) = 1
            /\ Cardinality({i \in 1..Len(real_prompt) :
                              real_prompt[i].content = turn_prompt})
                 = 1 + Cardinality({i \in 1..Len(h) : h[i].content = turn_prompt})
            /\ ~first_input => Last(messages) = UserMessage(turn_prompt)
            /\ prompt_ids = Tokenize(real_prompt)

C15_Witness ==
    /\ main_pc = "called"
    /\ ~first_input
    /\ Len(messages) = 3
    /\ messages[1].role = "user"
    /\ messages[1].content = turn_prompt
    /\ messages[2].role = "robot"
    /\ Len(real_prompt) = 4

\* ------------------------------------------------------------------ C17
\* C17: whatever turns the session has run, each completed or aborted by
\* an error raised during generation, the history never holds two
\* consecutive 'user' entries and, once a turn has ended, its last entry
\* has role 'robot'.
C17_NoDanglingUserMessage ==
    /\ \A i \in 1..(Len(messages) - 1) :
         ~(messages[i].role = "user" /\ messages[i + 1].role = "user")
    /\ (main_pc = "idle" /\ messages # <<>>) => Last(messages).role = "robot"

\* ------------------------------------------------------------------ C18
\* a script run passes lines 334-343 in this step
ChoosesPrompt ==
    \/ main_pc = "rerun" /\ main_pc' \in {"reply", "idle"}
    \/ main_pc = "intro" /\ gr_pc = "done" /\ main_pc' \in {"reply", "idle"}

\* the script came to its end without an exception
RunCompleted == main_pc = "idle" /\ error = "none"

C19_ClearRestartsWithIntroduction ==
    /\ (event = "clear" /\ main_pc = "rerun") => ~messages_in_state
    /\ (event = "clear" /\ main_pc = "intro") =>
         /\ messages_in_state
         /\ first_input
         /\ turn_prompt = FirstInputText
         /\ real_prompt = <<Segment("system", MetaInstruction),
                            Segment("cur_query_prompt", FirstInputText)>>
         /\ gr_pc = "streaming" => messages = <<>>
         /\ gr_pc = "done" => messages = <<RobotMessage(Last(emitted))>>
    /\ \A i \in 1..Len(messages) : messages[i].content # FirstInputText

C19_Witness ==
    /\ event = "clear"
    /\ main_pc = "intro"
    /\ gr_pc = "done"
    /\ first_input
    /\ Len(messages) = 1
    /\ messages[1].role = "robot"

====
